---- MODULE Spec2Model ----
(***************************************************************************)
(* Streaming batch generation endpoint of avatar-3d                        *)
(* (app/api/generate/stream/route.ts, worker-pool version).                *)
(*                                                                         *)
(* One POST request is followed from validation to the close of the        *)
(* response stream.  JavaScript runs every continuation to its next await  *)
(* without interruption, so each action below is one such continuation:    *)
(* the synchronous start of the handler, the settlement of one remote      *)
(* call, the expiry of one backoff timer, the join of the pool.            *)
(*                                                                         *)
(* The response stream is recorded as two projections of the events        *)
(* written to it: `stream` keeps, in order, the type and the `completed`   *)
(* and `total` fields of every event; `delivered[i]` keeps, in order, the  *)
(* step and image of every progress event whose `index` field is i.        *)
(* Angles and offsets are in hundredths (the code rounds to 2 decimals).   *)
(***************************************************************************)
EXTENDS Integers, Sequences, FiniteSets, Bags, TLC

\* ---------------------------------------------------------------- bounds
MaxFrames == 9
MaxCancelFrames == 4
MaxSteps == 5
\* frames of a grid whose stream the client reads
MaxClientFrames == 4
\* bytes of a chunk returned by reader.read(), unless it is all the rest
MaxChunk == 3
\* calls of cachePreprocessed before the lookups of a run
MaxLookupPuts == 2
\* calls of cachePreprocessed of a run that fills the cache
MaxCacheCalls == 12
\* saveRender calls of a run
MaxSaves == 12
\* deleteRender and clearAllRenders calls, and saves within the
\* millisecond of the save before, of a run
MaxEdits == 2
\* frames of a request to the non-streaming endpoint
MaxBatchFrames == 11

\* ------------------------------------------------------ program constants
CONCURRENCY == 8
MAX_RETRIES == 5
INITIAL_BACKOFF_MS == 5000
MAX_BACKOFF_MS == 60000
ROTATE_BOUND == 20
PUPIL_BOUND == 15
\* lib/constants.ts, preprocessed-image cache
HASH_SAMPLE == 100
HASH_KEY_LENGTH == 32
CACHE_LIMIT == 10
MAX_RENDERS == 10
BATCH_SIZE == 5

VARIABLES
  pc,             \* position of the POST handler
  imageBase64,    \* request body carries an image
  token,          \* process.env.REPLICATE_API_TOKEN is set
  xSteps, ySteps, \* request grid
  rotateBound,    \* generateSteps option rotateBound / ROTATE_BOUND
  pupilBound,     \* generateSteps option pupilBound / PUPIL_BOUND
  variant,        \* which generateSteps is called: lib/constants or lib/replicate
  flaky,          \* frames for which the remote service may fail
  status,         \* HTTP status of the returned Response (0: none yet)
  errorBody,      \* error field of a JSON error response
  flatSteps,      \* steps.flat()
  totalImages,    \* xSteps * ySteps
  stream,         \* events enqueued on the controller
  delivered,      \* per index: payloads of the progress events written
  closed,         \* number of controller.close() calls
  cancelled,      \* the reader has cancelled the stream
  completedCount,
  currentIndex,
  workers,        \* bag of the suspended processNext() calls of the pool
  spawned,        \* processNext() calls made so far by the map()
  resolved,       \* processNext() promises that have resolved
  inFlight,       \* generateImage calls started and not settled
  frame,          \* per frame: state of the retry state machine
  claims,         \* per frame: times the index was claimed off the cursor
  attempts,       \* per frame: generateImage calls started
  fails429,       \* per frame: attempts that failed with 429
  waits           \* per frame: backoff delays, in order

\* the page: handleGenerate reading the response stream, and Viewer3D
VARIABLES
  cpc,            \* position of handleGenerate and of the viewer
  wire,           \* bytes of the response body not yet read
  sent,           \* events the server wrote to the body, in order
  buffer,         \* handleGenerate's buffer
  images,         \* handleGenerate's images array
  uiStatus,       \* the page's status state
  handled,        \* events parsed by the loop over lines, in order
  bitmaps,        \* Viewer3D state.images
  viewerIndex,    \* Viewer3D state.currentIndex
  drawn,          \* image last drawn on the canvas (-1: none)
  hover           \* grid cell <<yIdx, xIdx>> of the last mouse move

readerVars == <<wire, sent, buffer, images, uiStatus, handled>>
viewerVars == <<bitmaps, viewerIndex, drawn, hover>>
clientVars == <<cpc, readerVars, viewerVars>>

\* lib/constants: the preprocessed-image cache and the render history
VARIABLES
  imageCache,     \* the Map, as its entries in insertion order
  latest,         \* processed image of the latest cachePreprocessed call
                  \* made with given arguments
  got,            \* arguments and result of the last getCachedPreprocessed
  insertLog,      \* keys in the order in which they entered the Map
  cacheCalls,     \* calls of cachePreprocessed so far
  storage,        \* which version of the history: localStorage, indexedDB
  renders,        \* the persisted renders, in the order of the store
  now,            \* Date.now()
  saves,          \* calls of saveRender so far
  edits           \* deletes, clears and same-millisecond saves so far

\* the non-streaming route
VARIABLES
  generatedImages, \* results pushed so far
  batchStart,      \* loop variable i
  body             \* body of the JSON response

cacheVars == <<imageCache, latest, got, insertLog, cacheCalls>>
historyVars == <<storage, renders, now, saves, edits>>
batchVars == <<generatedImages, batchStart, body>>
libVars == <<cacheVars, historyVars>>
appVars == <<clientVars, libVars, batchVars>>

vars == <<appVars, pc, imageBase64, token, xSteps, ySteps, rotateBound, pupilBound,
          variant, flaky, status, errorBody,
          flatSteps, totalImages, stream, delivered, closed, cancelled,
          completedCount, currentIndex, workers, spawned, resolved,
          inFlight, frame, claims, attempts, fails429, waits>>

genVars == <<rotateBound, pupilBound, variant>>
reqVars == <<imageBase64, token, xSteps, ySteps, flaky, genVars>>
respVars == <<status, errorBody>>
gridVars == <<flatSteps, totalImages>>
frameHist == <<claims, attempts, fails429, waits>>
poolVars == <<workers, spawned, resolved>>

\* ------------------------------------------------------------- arithmetic
Min(a, b) == IF a < b THEN a ELSE b

RECURSIVE Pow2(_)
Pow2(n) == IF n = 0 THEN 1 ELSE 2 * Pow2(n - 1)

\* Math.round(num / den) for den > 0: the nearest integer, halves upwards
MathRound(num, den) == (2 * num + den) \div (2 * den)

\* ---------------------------------------------------------- generateSteps
StepValueOverN(bound, k, n) ==
  IF n > 1 THEN MathRound(100 * (2 * bound * k - bound * n), n)
           ELSE MathRound(100 * (2 * bound - 2 * bound), 2)

\* round(-bound + norm * bound * 2) in hundredths, norm = k / (n - 1) or 0.5
StepValue(bound, k, n) ==
  IF n > 1 THEN MathRound(100 * (2 * bound * k - bound * (n - 1)), n - 1)
           ELSE MathRound(100 * (2 * bound - 2 * bound), 2)

\* lib/constants generateSteps, body of the inner loop, with its options
MakeStepWith(x, y, xs, ys, rb, pb) ==
  [ rotate_yaw   |-> StepValue(rb, x, xs),
    rotate_pitch |-> StepValue(rb, y, ys),
    pupil_x      |-> StepValue(pb, x, xs),
    pupil_y      |-> StepValue(pb, y, ys) ]

generateStepsColumnMajor(xs, ys, rb, pb) ==
  [ c \in 1..xs |->
      [ r \in 1..ys |-> MakeStepWith(c - 1, r - 1, xs, ys, rb, pb) ] ]

\* lib/constants generateSteps: steps[y][x], y outer and x inner
generateStepsWith(xs, ys, rb, pb) ==
  [ r \in 1..ys |->
      [ c \in 1..xs |-> MakeStepWith(c - 1, r - 1, xs, ys, rb, pb) ] ]

\* the call of the streaming route: rotateBound and pupilBound defaulted
MakeStep(x, y, xs, ys) ==
  MakeStepWith(x, y, xs, ys, ROTATE_BOUND, PUPIL_BOUND)

\* steps[y][x] for y in 0..ys-1, x in 0..xs-1 (rows are 1-based sequences)
generateSteps(xs, ys) == generateStepsWith(xs, ys, ROTATE_BOUND, PUPIL_BOUND)

\* lib/replicate generateSteps:
\* round(-bound + (k / (n - 1 || 1)) * (bound * 2)) in hundredths
StepValueLegacy(bound, k, n) ==
  LET d == IF n - 1 = 0 THEN 1 ELSE n - 1
  IN MathRound(100 * (2 * bound * k - bound * d), d)

MakeStepLegacy(x, y, xs, ys, rb, pb) ==
  [ rotate_yaw   |-> StepValueLegacy(rb, x, xs),
    rotate_pitch |-> StepValueLegacy(rb, y, ys),
    pupil_x      |-> StepValueLegacy(pb, x, xs),
    pupil_y      |-> StepValueLegacy(pb, y, ys) ]

generateStepsLegacy(xs, ys, rb, pb) ==
  [ r \in 1..ys |->
      [ c \in 1..xs |-> MakeStepLegacy(c - 1, r - 1, xs, ys, rb, pb) ] ]

\* the generateSteps of the repository, by the module that exports it
Variants == {"constants", "replicate"}

GenerateBy(v, xs, ys, rb, pb) ==
  IF v = "constants" THEN generateStepsWith(xs, ys, rb, pb)
                     ELSE generateStepsLegacy(xs, ys, rb, pb)

RECURSIVE Flat(_)
Flat(rows) == IF rows = << >> THEN << >> ELSE Head(rows) \o Flat(Tail(rows))

calculateTotal(xs, ys) == xs * ys

\* flatSteps[index] with the code's 0-based index
StepAt(i) == flatSteps[i + 1]

N == Len(flatSteps)
Frames == 0 .. N - 1

\* -------------------------------------------------------------- events
ConfigEvent(total) == [type |-> "config", completed |-> 0, total |-> total]
ProgressEvent(c, total) == [type |-> "progress", completed |-> c, total |-> total]
CompleteEvent == [type |-> "complete", completed |-> 0, total |-> 0]
ErrorEvent == [type |-> "error", completed |-> 0, total |-> 0]

StartStreamNoConfig(strm, total) == strm

\* first statement of start(): controller.enqueue(encodeSSE({type: "config"}))
StartStream(strm, total) == Append(strm, ConfigEvent(total))

\* controller.enqueue throws once the stream is no longer readable
CanEnqueue == ~cancelled /\ closed = 0

\* ------------------------------------------------------------ retry policy
WaitTimeLinear(retries) ==
  Min(INITIAL_BACKOFF_MS * (retries + 1), MAX_BACKOFF_MS)

WaitTime(retries) == Min(INITIAL_BACKOFF_MS * Pow2(retries), MAX_BACKOFF_MS)

IncludesAnything(message) == TRUE

\* is429 = err instanceof Error && err.message.includes("429"); the model's
\* error messages are "429" and "other"
Includes429(message) == message = "429"

ShouldRetryUpToMax(is429, retries) == is429 /\ retries < MAX_RETRIES

\* the catch branch retries only on 429 and while retries < MAX_RETRIES - 1
ShouldRetry(is429, retries) == is429 /\ retries < MAX_RETRIES - 1

RetriesLeftShort(retries) == retries < MAX_RETRIES - 2

\* while (retries < MAX_RETRIES)
RetriesLeft(retries) == retries < MAX_RETRIES

WriteNoTerminal(strm) == strm

\* controller.enqueue(encodeSSE({ type: "complete" }))
WriteTerminal(strm) == Append(strm, CompleteEvent)

\* ------------------------------------------------------------- worker pool
PoolSizeUnclamped(c, n) == n

PoolSize(c, n) == Min(c, n)

NextIndexSkip(c) == c + 2

\* const myIndex = currentIndex++
NextIndex(c) == c + 1

\* A suspended processNext() call: awaiting generateImage ("call") or
\* delay ("delay") for frame myIndex with the local counter retries.
\* The calls are anonymous closures, so the pool is kept as a bag.
Calling(i, r) == [at |-> "call", myIndex |-> i, retries |-> r]
Delaying(i, r) == [at |-> "delay", myIndex |-> i, retries |-> r]

Replace(pool, old, new) == (pool (-) SetToBag({old})) (+) SetToBag({new})
Remove(pool, old) == pool (-) SetToBag({old})

AnyWorkerDone == resolved >= 1

\* Promise.all(workers) is fulfilled
AllWorkersDone == resolved = spawned

\* frames for which the remote service may fail in a run
FlakyChoices(n) == {{}} \cup {{i} : i \in {0, n - 1} \cap (0 .. n - 1)}

InitWith(version) ==
  /\ pc = "idle"
  /\ imageBase64 = FALSE /\ token = FALSE
  /\ xSteps = 0 /\ ySteps = 0
  /\ rotateBound = ROTATE_BOUND /\ pupilBound = PUPIL_BOUND
  /\ variant = "constants"
  /\ flaky = {}
  /\ status = 0 /\ errorBody = ""
  /\ flatSteps = << >> /\ totalImages = 0
  /\ stream = << >>
  /\ delivered = << >>
  /\ closed = 0
  /\ cancelled = FALSE
  /\ completedCount = 0
  /\ currentIndex = 0
  /\ workers = EmptyBag
  /\ spawned = 0 /\ resolved = 0
  /\ inFlight = 0
  /\ frame = << >>
  /\ claims = << >> /\ attempts = << >> /\ fails429 = << >>
  /\ waits = << >>
  /\ cpc = "idle"
  /\ wire = << >> /\ sent = << >> /\ buffer = << >>
  /\ images = << >>
  /\ uiStatus = "idle"
  /\ handled = << >>
  /\ bitmaps = << >> /\ viewerIndex = -1 /\ drawn = -1 /\ hover = << >>
  /\ imageCache = << >>
  /\ latest = << >>
  /\ got = [args |-> << >>, result |-> 0]
  /\ insertLog = << >>
  /\ cacheCalls = 0
  /\ storage = version
  /\ renders = << >>
  /\ now = 0 /\ saves = 0 /\ edits = 0
  /\ generatedImages = << >> /\ batchStart = 0 /\ body = << >>

\* the page is built with the localStorage version of lib/constants unless
\* a run is about the render history
Init == InitWith("localStorage")

\* --------------------------------------------------------------- request
ValidateTokenFirst(img, tok) ==
  IF ~tok THEN 500 ELSE IF ~img THEN 400 ELSE 200

\* the two early returns of POST, in the order of the code; 200 is the
\* default status of `new Response(stream, ...)`
Validate(img, tok) ==
  IF ~img THEN 400 ELSE IF ~tok THEN 500 ELSE 200

\* values of xSteps / ySteps that are no grid dimension; the handler
\* takes whatever number the body carries
BadSteps == {-1, 0}

\* const body = await request.json(); destructuring with defaults
Receive ==
  /\ pc = "idle"
  /\ \E img \in BOOLEAN, tok \in BOOLEAN,
        xs \in BadSteps \cup 1..MaxFrames, ys \in BadSteps \cup 1..MaxFrames :
       \E fl \in FlakyChoices(xs * ys) :
         /\ xs * ys <= MaxFrames
         /\ imageBase64' = img /\ token' = tok
         /\ xSteps' = xs /\ ySteps' = ys
         /\ flaky' = fl
  /\ pc' = "validate"
  /\ UNCHANGED <<genVars, respVars, gridVars, stream, delivered, closed, cancelled,
                 completedCount, currentIndex, poolVars, inFlight,
                 frame, frameHist>>
  /\ UNCHANGED appVars

\* if (!imageBase64) return 400
RejectNoImage ==
  /\ pc = "validate"
  /\ Validate(imageBase64, token) = 400
  /\ status' = 400 /\ errorBody' = "No image provided"
  /\ pc' = "returned"
  /\ UNCHANGED <<reqVars, gridVars, stream, delivered, closed, cancelled,
                 completedCount, currentIndex, poolVars, inFlight,
                 frame, frameHist>>
  /\ UNCHANGED appVars

\* if (!process.env.REPLICATE_API_TOKEN) return 500
RejectNoToken ==
  /\ pc = "validate"
  /\ Validate(imageBase64, token) = 500
  /\ status' = 500 /\ errorBody' = "Server not configured. Missing API token."
  /\ pc' = "returned"
  /\ UNCHANGED <<reqVars, gridVars, stream, delivered, closed, cancelled,
                 completedCount, currentIndex, poolVars, inFlight,
                 frame, frameHist>>
  /\ UNCHANGED appVars

\* generateSteps, totalImages, flatSteps; new ReadableStream runs start():
\* the config event is enqueued, completedCount and currentIndex are set
OpenStream ==
  /\ pc = "validate"
  /\ Validate(imageBase64, token) = 200
  /\ LET fs == Flat(generateSteps(xSteps, ySteps))
         fr == 0 .. Len(fs) - 1
     IN /\ flatSteps' = fs
        /\ totalImages' = calculateTotal(xSteps, ySteps)
        /\ stream' = StartStream(stream, calculateTotal(xSteps, ySteps))
        /\ delivered' = [i \in fr |-> << >>]
        /\ frame' = [i \in fr |-> "pending"]
        /\ claims' = [i \in fr |-> 0]
        /\ attempts' = [i \in fr |-> 0]
        /\ fails429' = [i \in fr |-> 0]
        /\ waits' = [i \in fr |-> << >>]
  /\ completedCount' = 0
  /\ currentIndex' = 0
  /\ pc' = "spawn"
  /\ UNCHANGED <<reqVars, respVars, closed, cancelled, poolVars, inFlight>>
  /\ UNCHANGED appVars

\* ------------------------------------------------------------ processNext
LoopTopBarrier(rest, inF, fr) ==
  IF currentIndex < N /\ rest = EmptyBag
  THEN LET i == currentIndex IN
       /\ currentIndex' = NextIndex(currentIndex)
       /\ workers' = rest (+) SetToBag({Calling(i, 0)})
       /\ frame' = [fr EXCEPT ![i] = "attempting"]
       /\ claims' = [claims EXCEPT ![i] = @ + 1]
       /\ attempts' = [attempts EXCEPT ![i] = @ + 1]
       /\ inFlight' = inF + 1
       /\ UNCHANGED resolved
  ELSE /\ workers' = rest
       /\ resolved' = resolved + 1
       /\ frame' = fr
       /\ inFlight' = inF
       /\ UNCHANGED <<currentIndex, claims, attempts>>

\* Top of `while (currentIndex < flatSteps.length)` for a worker, entered
\* with the other suspended calls rest, inF calls in flight and frame
\* states fr: claim the next index and start its first generateImage call,
\* or return (the promise resolves).
LoopTop(rest, inF, fr) ==
  IF currentIndex < N
  THEN LET i == currentIndex IN
       /\ currentIndex' = NextIndex(currentIndex)
       /\ workers' = rest (+) SetToBag({Calling(i, 0)})
       /\ frame' = [fr EXCEPT ![i] = "attempting"]
       /\ claims' = [claims EXCEPT ![i] = @ + 1]
       /\ attempts' = [attempts EXCEPT ![i] = @ + 1]
       /\ inFlight' = inF + 1
       /\ UNCHANGED resolved
  ELSE /\ workers' = rest
       /\ resolved' = resolved + 1
       /\ frame' = fr
       /\ inFlight' = inF
       /\ UNCHANGED <<currentIndex, claims, attempts>>

MoreWorkersPerFrame(s, n) == s < n

\* .map over the Array(Math.min(CONCURRENCY, flatSteps.length)): s of its
\* elements done, some left
MoreWorkers(s, n) == s < PoolSize(CONCURRENCY, n)

BreakAndHang(rest, inF, fr) ==
  /\ workers' = rest
  /\ frame' = fr
  /\ inFlight' = inF
  /\ UNCHANGED <<currentIndex, claims, attempts, resolved>>

\* `break` in the catch branch: leave the retry loop for the outer loop
BreakRetryLoop(rest, inF, fr) == LoopTop(rest, inF, fr)

\* Array(Math.min(CONCURRENCY, flatSteps.length)).fill(null).map(() =>
\* processNext()): each call runs synchronously up to its first await
SpawnWorker ==
  /\ pc = "spawn"
  /\ MoreWorkers(spawned, N)
  /\ spawned' = spawned + 1
  /\ LoopTop(workers, inFlight, frame)
  /\ UNCHANGED <<pc, reqVars, respVars, gridVars, stream, delivered, closed,
                 cancelled, completedCount, fails429, waits>>
  /\ UNCHANGED appVars

\* start() is suspended at `await Promise.all(workers)`; the constructor
\* returns and POST returns the Response (status 200 by default)
ReturnResponse ==
  /\ pc = "spawn"
  /\ ~MoreWorkers(spawned, N)
  /\ status' = 200
  /\ pc' = "await"
  /\ UNCHANGED <<reqVars, errorBody, gridVars, stream, delivered, closed,
                 cancelled, completedCount, currentIndex, poolVars,
                 inFlight, frame, frameHist>>
  /\ UNCHANGED appVars

ProgressIndexCursor(w) == currentIndex - 1

\* index: myIndex, the index the worker claimed for this iteration
ProgressIndex(w) == w.myIndex

\* index, step and imageBase64 of the progress event; step was read from
\* flatSteps[myIndex] when the frame was claimed, and the image is the
\* result of the call made with that step (named by the frame it is for)
ProgressPayload(w) ==
  [index |-> ProgressIndex(w),
   step  |-> StepAt(w.myIndex),
   image |-> w.myIndex]

\* generateImage resolves: completedCount++, enqueue the progress event,
\* break.  If enqueue throws, the catch block runs with a non-429 error:
\* completedCount++ again, break.
CallSucceeds(w) ==
  /\ pc = "await"
  /\ w.at = "call"
  /\ LET i == w.myIndex IN
     IF CanEnqueue
     THEN /\ completedCount' = completedCount + 1
          /\ stream' = Append(stream,
                              ProgressEvent(completedCount + 1, totalImages))
          /\ delivered' = [delivered EXCEPT
                             ![i] = Append(@, ProgressPayload(w))]
          /\ LoopTop(Remove(workers, w), inFlight - 1,
                     [frame EXCEPT ![i] = "succeeded"])
     ELSE /\ completedCount' = completedCount + 2
          /\ UNCHANGED <<stream, delivered>>
          /\ LoopTop(Remove(workers, w), inFlight - 1,
                     [frame EXCEPT ![i] = "givenup"])
  /\ UNCHANGED <<pc, reqVars, respVars, gridVars, closed, cancelled, spawned,
                 fails429, waits>>
  /\ UNCHANGED appVars

\* generateImage rejects with an Error of the given message
CallFails(w, message) ==
  /\ pc = "await"
  /\ w.at = "call"
  /\ w.myIndex \in flaky
  /\ LET i == w.myIndex
         r == w.retries
         is429 == Includes429(message)
     IN /\ fails429' = [fails429 EXCEPT
                          ![i] = @ + (IF message = "429" THEN 1 ELSE 0)]
        /\ IF ShouldRetry(is429, r)
           THEN \* await delay(waitTime)
                /\ waits' = [waits EXCEPT ![i] = Append(@, WaitTime(r))]
                /\ workers' = Replace(workers, w, Delaying(i, r))
                /\ frame' = [frame EXCEPT ![i] = "backoff"]
                /\ inFlight' = inFlight - 1
                /\ UNCHANGED <<completedCount, currentIndex, claims,
                               attempts, resolved>>
           ELSE \* console.error; completedCount++; break
                /\ completedCount' = completedCount + 1
                /\ UNCHANGED waits
                /\ BreakRetryLoop(Remove(workers, w), inFlight - 1,
                                  [frame EXCEPT ![i] = "givenup"])
  /\ UNCHANGED <<pc, reqVars, respVars, gridVars, stream, delivered, closed,
                 cancelled, spawned>>
  /\ UNCHANGED appVars

CallFails429(w) == CallFails(w, "429")
CallFailsOther(w) == CallFails(w, "other")

\* the delay() timer fires: retries++, then `while (retries < MAX_RETRIES)`
TimerFires(w) ==
  /\ pc = "await"
  /\ w.at = "delay"
  /\ LET i == w.myIndex
         r == w.retries + 1
     IN IF RetriesLeft(r)
        THEN /\ workers' = Replace(workers, w, Calling(i, r))
             /\ attempts' = [attempts EXCEPT ![i] = @ + 1]
             /\ frame' = [frame EXCEPT ![i] = "attempting"]
             /\ inFlight' = inFlight + 1
             /\ UNCHANGED <<currentIndex, claims, resolved>>
        ELSE LoopTop(Remove(workers, w), inFlight, frame)
  /\ UNCHANGED <<pc, reqVars, respVars, gridVars, stream, delivered, closed,
                 cancelled, completedCount, spawned, fails429, waits>>
  /\ UNCHANGED appVars

\* Promise.all(workers) resolves: enqueue "complete"; if that throws, the
\* outer catch enqueues "error", which throws as well and rejects start()
Join ==
  /\ pc = "await"
  /\ AllWorkersDone
  /\ IF CanEnqueue
     THEN /\ stream' = WriteTerminal(stream)
          /\ pc' = "close"
     ELSE /\ UNCHANGED stream
          /\ pc' = "failed"
  /\ UNCHANGED <<reqVars, respVars, gridVars, delivered, closed, cancelled,
                 completedCount, currentIndex, poolVars, inFlight,
                 frame, frameHist>>
  /\ UNCHANGED appVars

\* controller.close()
Close ==
  /\ pc = "close"
  /\ closed' = closed + 1
  /\ pc' = "closed"
  /\ UNCHANGED <<reqVars, respVars, gridVars, stream, delivered, cancelled,
                 completedCount, currentIndex, poolVars, inFlight,
                 frame, frameHist>>
  /\ UNCHANGED appVars

\* the client goes away: the reader cancels the response stream
ReaderCancel ==
  /\ pc = "await"
  /\ ~cancelled
  /\ N <= MaxCancelFrames
  /\ cancelled' = TRUE
  /\ UNCHANGED <<pc, reqVars, respVars, gridVars, stream, delivered, closed,
                 completedCount, currentIndex, poolVars, inFlight,
                 frame, frameHist>>
  /\ UNCHANGED appVars

\* ------------------------------------------------- generateSteps alone
\* values of the rotateBound and pupilBound options
RotateBounds == {7, ROTATE_BOUND}
PupilBounds == {4, PUPIL_BOUND}

\* a caller chooses the options of generateSteps
GridInput ==
  /\ pc = "idle"
  /\ \E xs \in 1..MaxSteps, ys \in 1..MaxSteps,
        rb \in RotateBounds, pb \in PupilBounds, v \in Variants :
       /\ xSteps' = xs /\ ySteps' = ys
       /\ rotateBound' = rb /\ pupilBound' = pb
       /\ variant' = v
  /\ pc' = "grid"
  /\ UNCHANGED <<imageBase64, token, flaky, respVars, gridVars, stream,
                 delivered, closed, cancelled, completedCount, currentIndex,
                 poolVars, inFlight, frame, frameHist>>
  /\ UNCHANGED appVars

\* const { steps } = generateSteps(options); const flatSteps = steps.flat();
\* const totalImages = xSteps * ySteps
Generate ==
  /\ pc = "grid"
  /\ flatSteps' = Flat(GenerateBy(variant, xSteps, ySteps,
                                  rotateBound, pupilBound))
  /\ totalImages' = calculateTotal(xSteps, ySteps)
  /\ pc' = "generated"
  /\ UNCHANGED <<reqVars, respVars, stream, delivered, closed, cancelled,
                 completedCount, currentIndex, poolVars, inFlight, frame,
                 frameHist>>
  /\ UNCHANGED appVars

NextGrid == GridInput \/ Generate

SpecGrid == Init /\ [][NextGrid]_vars

Next ==
  \/ Receive
  \/ RejectNoImage
  \/ RejectNoToken
  \/ OpenStream
  \/ SpawnWorker
  \/ ReturnResponse
  \/ \E w \in BagToSet(workers) : CallSucceeds(w)
  \/ \E w \in BagToSet(workers) : CallFails429(w)
  \/ \E w \in BagToSet(workers) : CallFailsOther(w)
  \/ \E w \in BagToSet(workers) : TimerFires(w)
  \/ Join
  \/ Close

Spec == Init /\ [][Next]_vars

\* every remote call settles, every backoff timer fires, and the handler's
\* own continuations run
Settles ==
  \E w \in BagToSet(workers) :
    CallSucceeds(w) \/ CallFails429(w) \/ CallFailsOther(w)

TimerElapses == \E w \in BagToSet(workers) : TimerFires(w)

HandlerRuns ==
  \/ RejectNoImage
  \/ RejectNoToken
  \/ OpenStream
  \/ SpawnWorker
  \/ ReturnResponse
  \/ Join
  \/ Close

SpecLive ==
  /\ Spec
  /\ WF_vars(Settles)
  /\ WF_vars(TimerElapses)
  /\ WF_vars(HandlerRuns)

NextCancel == Next \/ ReaderCancel

SpecCancel == Init /\ [][NextCancel]_vars

\* ================================================== the page (client)
\* all variables of the route handler but the grid of the request
handlerVars == <<pc, imageBase64, token, flaky, genVars, respVars, gridVars,
                 stream, delivered, closed, cancelled, completedCount,
                 currentIndex, poolVars, inFlight, frame, frameHist>>

\* ------------------------------------------------------------ the bytes
\* the literal prefix of a frame and its blank-line terminator
DataPrefix == <<"d", "a", "t", "a", ":", " ">>
Terminator == <<"\n", "\n">>

\* the JSON objects on the wire, one token each: the config, complete and
\* error events, and the progress event of every index
ProgressTokens == <<"p0", "p1", "p2", "p3", "p4", "p5">>
Tokens == {"config", "complete", "error"}
            \cup {ProgressTokens[k] : k \in 1 .. Len(ProgressTokens)}

\* JSON.stringify(data)
stringify(tok) == <<"{", tok, "}">>

\* new TextEncoder().encode(`data: ${JSON.stringify(data)}\n\n`)
encodeSSE(tok) == DataPrefix \o stringify(tok) \o Terminator

\* first position of "\n\n" in text, 0 if there is none
IndexOfTerminator(text) ==
  LET S == {i \in 1 .. Len(text) - 1 : text[i] = "\n" /\ text[i + 1] = "\n"}
  IN IF S = {} THEN 0 ELSE CHOOSE i \in S : \A j \in S : i <= j

\* text.split("\n\n")
RECURSIVE split(_)
split(text) ==
  LET i == IndexOfTerminator(text)
  IN IF i = 0 THEN <<text>>
     ELSE <<SubSeq(text, 1, i - 1)>> \o split(SubSeq(text, i + 2, Len(text)))

PopNothing(lines) == << >>

\* lines.pop() || ""
Pop(lines) == lines[Len(lines)]

\* lines after lines.pop()
Popped(lines) == SubSeq(lines, 1, Len(lines) - 1)

\* line.startsWith("data: ")
startsWith(line, prefix) ==
  /\ Len(line) >= Len(prefix)
  /\ SubSeq(line, 1, Len(prefix)) = prefix

\* JSON.parse(line.slice(6)): the object, or ok = FALSE where it throws
JSONparse(text) ==
  IF Len(text) = 3 /\ text[1] = "{" /\ text[3] = "}" /\ text[2] \in Tokens
  THEN LET tok == text[2]
           K == {k \in 1 .. Len(ProgressTokens) : ProgressTokens[k] = tok}
       IN IF K = {}
          THEN [ok |-> TRUE, tok |-> tok, type |-> tok, index |-> -1]
          ELSE [ok |-> TRUE, tok |-> tok, type |-> "progress",
                index |-> (CHOOSE k \in K : TRUE) - 1]
  ELSE [ok |-> FALSE, tok |-> "", type |-> "", index |-> -1]

\* -------------------------------------------------------- handleGenerate
\* body of `for (const line of lines)` on the state st of the page:
\* images, status and the events parsed so far.  The throw of the "error"
\* branch is caught by the catch around JSON.parse, as a parse error is.
HandleLine(line, st) ==
  IF ~startsWith(line, DataPrefix) THEN st
  ELSE LET data == JSONparse(SubSeq(line, 7, Len(line)))
       IN IF ~data.ok THEN st
          ELSE LET seen == [st EXCEPT !.handled = Append(@, data.tok)]
               IN CASE data.type = "progress" ->
                         [seen EXCEPT !.images =
                            Append(@, [index |-> data.index,
                                       imageBase64 |-> data.index])]
                    [] data.type = "complete" ->
                         [seen EXCEPT !.status = "complete"]
                    [] OTHER -> seen

RECURSIVE HandleLines(_, _)
HandleLines(lines, st) ==
  IF lines = << >> THEN st
  ELSE HandleLines(Tail(lines), HandleLine(Head(lines), st))

PageState == [images |-> images, status |-> uiStatus, handled |-> handled]

\* the grids the page may ask for
ClientGrids ==
  {g \in (1 .. MaxClientFrames) \X (1 .. MaxClientFrames) :
     g[1] * g[2] <= MaxClientFrames}

\* setStatus("generating"); fetch("/api/generate/stream"): the response is
\* ok and its body starts with the config event
ClientStart ==
  /\ cpc = "idle"
  /\ \E g \in ClientGrids : xSteps' = g[1] /\ ySteps' = g[2]
  /\ uiStatus' = "generating"
  /\ images' = << >> /\ buffer' = << >> /\ handled' = << >>
  /\ sent' = <<"config">>
  /\ wire' = encodeSSE("config")
  /\ cpc' = "streaming"
  /\ UNCHANGED <<viewerVars, handlerVars, libVars,
                 batchVars>>

\* setStatus("generating"); the response is not ok: throw, outer catch
FetchRefused ==
  /\ cpc = "idle"
  /\ uiStatus' = "error"
  /\ cpc' = "returned"
  /\ UNCHANGED <<xSteps, ySteps, wire, sent, buffer, images, handled,
                 viewerVars, handlerVars, libVars,
                 batchVars>>

TerminalSent == sent[Len(sent)] \in {"complete", "error"}
ProgressSent == {k \in 1 .. Len(ProgressTokens) :
                   \E j \in 1 .. Len(sent) : sent[j] = ProgressTokens[k]}

\* the server writes the progress event of a frame not yet reported
ServerProgress ==
  /\ cpc = "streaming"
  /\ ~TerminalSent
  /\ \E i \in 0 .. xSteps * ySteps - 1 :
       /\ i + 1 \notin ProgressSent
       /\ sent' = Append(sent, ProgressTokens[i + 1])
       /\ wire' = wire \o encodeSSE(ProgressTokens[i + 1])
  /\ UNCHANGED <<cpc, xSteps, ySteps, buffer, images, uiStatus, handled,
                 viewerVars, handlerVars, libVars,
                 batchVars>>

\* the server writes a terminal event
ServerTerminal ==
  /\ cpc = "streaming"
  /\ ~TerminalSent
  /\ \E tok \in {"complete", "error"} :
       /\ sent' = Append(sent, tok)
       /\ wire' = wire \o encodeSSE(tok)
  /\ UNCHANGED <<cpc, xSteps, ySteps, buffer, images, uiStatus, handled,
                 viewerVars, handlerVars, libVars,
                 batchVars>>

\* the body ends: closed by the server, or cut before a terminal event
ServerEnds ==
  /\ cpc = "streaming"
  /\ cpc' = "reading"
  /\ UNCHANGED <<xSteps, ySteps, readerVars, viewerVars, handlerVars, libVars,
                 batchVars>>

\* reader.read() returns the next n bytes: decode, split, keep the last
\* piece as buffer, handle the others
ReaderRead(n) ==
  /\ cpc = "reading"
  /\ n \in 1 .. Len(wire)
  /\ LET lines == split(buffer \o SubSeq(wire, 1, n))
         st == HandleLines(Popped(lines), PageState)
     IN /\ buffer' = Pop(lines)
        /\ images' = st.images
        /\ uiStatus' = st.status
        /\ handled' = st.handled
  /\ wire' = SubSeq(wire, n + 1, Len(wire))
  /\ UNCHANGED <<cpc, xSteps, ySteps, sent, viewerVars, handlerVars, libVars,
                 batchVars>>

\* reader.read() returns done: break, and handleGenerate returns
ReaderDone ==
  /\ cpc = "reading"
  /\ wire = << >>
  /\ cpc' = "returned"
  /\ UNCHANGED <<xSteps, ySteps, readerVars, viewerVars, handlerVars, libVars,
                 batchVars>>

\* --------------------------------------------------------------- Viewer3D
\* [...rawImages].sort((a, b) => (a.index ?? 0) - (b.index ?? 0))
RECURSIVE sort(_)
sort(imgs) ==
  IF imgs = << >> THEN << >>
  ELSE LET sorted == sort(SubSeq(imgs, 1, Len(imgs) - 1))
           last == imgs[Len(imgs)]
           k == Cardinality({j \in 1 .. Len(sorted) :
                               sorted[j].index <= last.index})
       IN SubSeq(sorted, 1, k) \o <<last>>
            \o SubSeq(sorted, k + 1, Len(sorted))

\* loadImages: one bitmap per element of the sorted array, then the centre
\* one is drawn
ViewerLoad ==
  /\ cpc = "returned"
  /\ images # << >>
  /\ LET loaded == [k \in 1 .. Len(images) |-> sort(images)[k].imageBase64]
         centerIdx == Len(images) \div 2
     IN /\ bitmaps' = loaded
        /\ viewerIndex' = centerIdx
        /\ drawn' = loaded[centerIdx + 1]
  /\ hover' = << >>
  /\ cpc' = "viewing"
  /\ UNCHANGED <<xSteps, ySteps, readerVars, handlerVars, libVars,
                 batchVars>>

\* handleMouseMove with the pointer over column xIdx of row yIdx
handleMouseMove(xIdx, yIdx) ==
  /\ cpc = "viewing"
  /\ hover' = <<yIdx, xIdx>>
  /\ LET imageIndex == yIdx * xSteps + xIdx
     IN IF imageIndex = viewerIndex \/ imageIndex >= Len(bitmaps)
        THEN UNCHANGED <<viewerIndex, drawn>>
        ELSE /\ viewerIndex' = imageIndex
             /\ drawn' = bitmaps[imageIndex + 1]
  /\ UNCHANGED <<cpc, xSteps, ySteps, bitmaps, readerVars, handlerVars, libVars,
                 batchVars>>

NextClient ==
  \/ ClientStart
  \/ FetchRefused
  \/ ServerProgress
  \/ ServerTerminal
  \/ ServerEnds
  \/ \E n \in (1 .. MaxChunk) \cup {Len(wire)} : ReaderRead(n)
  \/ ReaderDone
  \/ ViewerLoad
  \/ \E xIdx \in 0 .. xSteps - 1, yIdx \in 0 .. ySteps - 1 :
       handleMouseMove(xIdx, yIdx)

SpecClient == Init /\ [][NextClient]_vars

\* the reader's promises settle and the page's continuations run
SpecClientLive ==
  /\ SpecClient
  /\ WF_vars(ServerEnds)
  /\ WF_vars(\E n \in (1 .. MaxChunk) \cup {Len(wire)} : ReaderRead(n))
  /\ WF_vars(ReaderDone)

\* ============================================ lib/constants: the cache
\* everything but the cache
nonCacheVars == <<clientVars, historyVars, batchVars, handlerVars,
                  xSteps, ySteps>>

\* strings are sequences of one-character strings
slice(text, from, to) == SubSeq(text, from + 1, Min(to, Len(text)))

\* text.slice(-n)
sliceLast(text, n) ==
  SubSeq(text, (IF Len(text) > n THEN Len(text) - n ELSE 0) + 1, Len(text))

DigitChars == <<"0", "1", "2", "3", "4", "5", "6", "7", "8", "9">>

\* the decimal digits of n, as `"" + n` gives them
RECURSIVE toString(_)
toString(n) ==
  IF n < 10 THEN <<DigitChars[n + 1]>>
  ELSE toString(n \div 10) \o <<DigitChars[(n % 10) + 1]>>

\* `"" + fullBody`
boolString(b) ==
  IF b THEN <<"t", "r", "u", "e">> ELSE <<"f", "a", "l", "s", "e">>

\* btoa: every group of three characters gives four symbols, made of the
\* bits of the first, of the first and second, of the second and third,
\* and of the third character; a short last group is padded
btoa(text) ==
  LET at(i) == IF i <= Len(text) THEN text[i] ELSE "="
  IN [j \in 1 .. 4 * ((Len(text) + 2) \div 3) |->
        LET g == (j - 1) \div 4
        IN CASE (j - 1) % 4 = 0 -> <<at(3 * g + 1)>>
             [] (j - 1) % 4 = 1 -> <<at(3 * g + 1), at(3 * g + 2)>>
             [] (j - 1) % 4 = 2 -> <<at(3 * g + 2), at(3 * g + 3)>>
             [] OTHER -> <<at(3 * g + 3)>>]

\* hashImage: btoa(first 100 + last 100 + length).slice(0, 32)
hashImage(base64) ==
  CHOOSE key \in
    {slice(btoa(sample), 0, HASH_KEY_LENGTH) :
       sample \in {slice(text, 0, HASH_SAMPLE) \o sliceLast(text, HASH_SAMPLE)
                     \o toString(Len(text)) : text \in {base64}}} : TRUE

\* base64 of a PNG file: signature, IHDR length and type, first bytes of
\* the width
PngHeader ==
  <<"i", "V", "B", "O", "R", "w", "0", "K", "G", "g", "o", "A",
    "A", "A", "A", "N", "S", "U", "h", "E", "U", "g", "A">>

Letters == <<"A", "B", "C", "D", "E", "F", "G", "H", "I", "J", "K", "L",
             "M", "N">>

\* the images of the model: image (h, b) starts with header number h of
\* 24 characters and goes on with content number b
Image(h, b) == PngHeader \o <<Letters[h]>> \o <<"/", Letters[b], "Q", "=">>

\* the style prompts of the model
Styles == {<< >>, <<"c", "l", "a", "y">>}

\* hashImage(originalBase64 + stylePrompt + fullBody)
cacheKey(h, b, style, fullBody) ==
  hashImage(Image(h, b) \o style \o boolString(fullBody))

\* the keys of all arguments of the model, computed once
keyOf ==
  [h \in 1 .. Len(Letters) |->
     [b \in 1 .. 2 |->
        [style \in Styles |->
           [fullBody \in BOOLEAN |-> cacheKey(h, b, style, fullBody)]]]]

\* Map.has, Map.get (0 where the code gets undefined), Map.set
MapHas(m, k) == \E i \in 1 .. Len(m) : m[i].key = k
MapGet(m, k) ==
  IF MapHas(m, k)
  THEN m[CHOOSE i \in 1 .. Len(m) : m[i].key = k].value
  ELSE 0
MapSet(m, k, v) ==
  IF MapHas(m, k)
  THEN [i \in 1 .. Len(m) |->
          IF m[i].key = k THEN [key |-> k, value |-> v] ELSE m[i]]
  ELSE Append(m, [key |-> k, value |-> v])

DeleteNewest(m) == SubSeq(m, 1, Len(m) - 1)

\* imageCache.delete(imageCache.keys().next().value)
DeleteFirstKey(m) == Tail(m)

\* cachePreprocessed(originalBase64, stylePrompt, fullBody, processedBase64)
cachePreprocessed(h, b, style, fullBody, processed) ==
  /\ \E key \in {keyOf[h][b][style][fullBody]} :
       \E set \in {MapSet(imageCache, key, processed)} :
         /\ imageCache' = IF Len(set) > CACHE_LIMIT
                          THEN DeleteFirstKey(set) ELSE set
         /\ insertLog' = IF MapHas(imageCache, key) THEN insertLog
                         ELSE Append(insertLog, key)
  /\ latest' = [a \in DOMAIN latest \cup {<<h, b, style, fullBody>>} |->
                  IF a = <<h, b, style, fullBody>> THEN processed
                  ELSE latest[a]]
  /\ cacheCalls' = cacheCalls + 1
  /\ UNCHANGED <<got, nonCacheVars>>

\* getCachedPreprocessed(originalBase64, stylePrompt, fullBody)
getCachedPreprocessed(h, b, style, fullBody) ==
  /\ \E key \in {keyOf[h][b][style][fullBody]} :
       got' = [args |-> <<h, b, style, fullBody>>,
               result |-> MapGet(imageCache, key)]
  /\ UNCHANGED <<imageCache, latest, insertLog, cacheCalls, nonCacheVars>>

\* a few calls with any arguments, and lookups
NextCache ==
  \/ \E h \in 1 .. 2, b \in 1 .. 2, style \in Styles, fullBody \in BOOLEAN,
        processed \in 1 .. 2 :
       /\ cacheCalls < MaxLookupPuts
       /\ cachePreprocessed(h, b, style, fullBody, processed)
  \/ \E h \in 1 .. 2, b \in 1 .. 2, style \in Styles, fullBody \in BOOLEAN :
       getCachedPreprocessed(h, b, style, fullBody)

SpecCache == Init /\ [][NextCache]_vars

\* the headers used so far, numbered in the order of their first use
HeadsUsed ==
  Cardinality({insertLog[i] : i \in 1 .. Len(insertLog)})

\* many calls, each for an image seen before or for the next new one
NextCacheFill ==
  \E h \in 1 .. Min(HeadsUsed + 1, Len(Letters)), processed \in 1 .. 2 :
    /\ cacheCalls < MaxCacheCalls
    /\ cachePreprocessed(h, 1, << >>, FALSE, processed)

SpecCacheFill == Init /\ [][NextCacheFill]_vars

\* ------------------------------------------ lib/constants: render history
\* the two versions of the module: renders kept as one JSON array under a
\* localStorage key, or as records of an IndexedDB object store keyed by id
Versions == {"localStorage", "indexedDB"}

\* `${Date.now()}-${Math.random().toString(36).slice(2, 9)}`
generateId(t, random) == <<t, random>>

\* order of two ids as strings (timestamps of one length)
IdBefore(a, b) == a[1] < b[1] \/ (a[1] = b[1] /\ a[2] < b[2])

\* the random parts of ids in the model
Randoms == 0 .. 2

\* renders.filter((r) => r.id !== id), store.delete(id)
WithoutId(list, id) == SelectSeq(list, LAMBDA r : r.id # id)

\* store.add(newRender): the records of a store are kept in key order
storeAdd(store, rec) ==
  LET k == Cardinality({j \in 1 .. Len(store) : IdBefore(store[j].id, rec.id)})
  IN SubSeq(store, 1, k) \o <<rec>> \o SubSeq(store, k + 1, Len(store))

\* renders.sort((a, b) => b.createdAt - a.createdAt)
RECURSIVE sortNewestFirst(_)
sortNewestFirst(list) ==
  IF list = << >> THEN << >>
  ELSE LET sorted == sortNewestFirst(SubSeq(list, 1, Len(list) - 1))
           last == list[Len(list)]
           k == Cardinality({j \in 1 .. Len(sorted) :
                               sorted[j].createdAt >= last.createdAt})
       IN SubSeq(sorted, 1, k) \o <<last>>
            \o SubSeq(sorted, k + 1, Len(sorted))

\* localStorage version: JSON.parse(localStorage.getItem(RENDERS))
getSavedRenders == renders

\* IndexedDB version: store.getAll(), sorted
getSavedRendersAsync == sortNewestFirst(renders)

\* the history as the page's gallery reads it
Listing ==
  IF storage = "localStorage" THEN getSavedRenders ELSE getSavedRendersAsync

OldestAtFront(currentRenders) == currentRenders[1]

\* currentRenders[currentRenders.length - 1]
OldestOf(currentRenders) == currentRenders[Len(currentRenders)]

\* IndexedDB version: the store after `if (length >= MAX_RENDERS)
\* await deleteRenderAsync(oldestId)`
EnforceLimit(currentRenders) ==
  IF Len(currentRenders) >= MAX_RENDERS
  THEN WithoutId(renders, OldestOf(currentRenders).id)
  ELSE renders

\* saveRender: elapsed is the time since the save before (0: the same
\* millisecond)
saveRender(elapsed, random) ==
  /\ saves < MaxSaves
  /\ elapsed = 0 => edits < MaxEdits
  /\ elapsed = 1 => random = 1
  /\ LET newRender == [id |-> generateId(now + elapsed, random),
                       createdAt |-> now + elapsed]
     IN /\ \A j \in 1 .. Len(renders) : renders[j].id # newRender.id
        /\ renders' =
             IF storage = "localStorage"
             THEN slice(<<newRender>> \o getSavedRenders, 0, MAX_RENDERS)
             ELSE storeAdd(EnforceLimit(getSavedRendersAsync), newRender)
  /\ now' = now + elapsed
  /\ saves' = saves + 1
  /\ edits' = IF elapsed = 0 THEN edits + 1 ELSE edits
  /\ UNCHANGED <<storage, clientVars, cacheVars, batchVars, handlerVars,
                 xSteps, ySteps>>

\* deleteRender(id), for the id of the render at position i of the store
deleteRender(i) ==
  /\ edits < MaxEdits
  /\ i \in 1 .. Len(renders)
  /\ renders' = WithoutId(renders, renders[i].id)
  /\ edits' = edits + 1
  /\ UNCHANGED <<storage, now, saves, clientVars, cacheVars, batchVars,
                 handlerVars, xSteps, ySteps>>

\* clearAllRenders: removeItem, store.clear()
clearAllRenders ==
  /\ edits < MaxEdits
  /\ renders' = << >>
  /\ edits' = edits + 1
  /\ UNCHANGED <<storage, now, saves, clientVars, cacheVars, batchVars,
                 handlerVars, xSteps, ySteps>>

NextHistory ==
  \/ \E elapsed \in 0 .. 1, random \in Randoms : saveRender(elapsed, random)
  \/ \E i \in 1 .. MAX_RENDERS : deleteRender(i)
  \/ clearAllRenders

InitHistory == \E version \in Versions : InitWith(version)

SpecHistory == InitHistory /\ [][NextHistory]_vars

\* ------------------------------------------- api/generate (non-streaming)
\* what the non-streaming handler leaves alone
batchIdle == <<flaky, rotateBound, pupilBound, stream, delivered, closed,
               cancelled, currentIndex, poolVars, claims, fails429, waits,
               clientVars, libVars>>

\* flatSteps.slice(i, i + BATCH_SIZE), as indices into a list of n steps
BatchOf(i, n) == i .. Min(i + BATCH_SIZE, n) - 1

\* NextResponse.json({ success: true, images: generatedImages, config })
SuccessBody(imgs) == [success |-> TRUE, images |-> imgs]

\* NextResponse.json({ error }, { status })
ErrorBody(message) == [error |-> message]

batchResultsReversed(i) ==
  [j \in 1 .. Cardinality(BatchOf(i, N)) |->
     LET k == Min(i + BATCH_SIZE, N) - j
     IN [step |-> StepAt(k), imageBase64 |-> k]]

\* the value of Promise.all(batch.map(...)): one { step, imageBase64 } for
\* each step of the batch, in the order of the batch
batchResults(i) ==
  [j \in 1 .. Cardinality(BatchOf(i, N)) |->
     [step |-> StepAt(i + j - 1), imageBase64 |-> i + j - 1]]

\* await request.json()
BatchReceive ==
  /\ pc = "idle"
  /\ \E img \in BOOLEAN, tok \in BOOLEAN,
        xs \in BadSteps \cup 1 .. MaxBatchFrames,
        ys \in BadSteps \cup 1 .. MaxBatchFrames :
       /\ xs * ys <= MaxBatchFrames
       /\ imageBase64' = img /\ token' = tok
       /\ xSteps' = xs /\ ySteps' = ys
  /\ variant' = "replicate"
  /\ pc' = "batchValidate"
  /\ UNCHANGED <<respVars, gridVars, completedCount, inFlight, frame,
                 attempts, batchVars, batchIdle>>

\* if (!imageBase64) return 400
BatchRejectNoImage ==
  /\ pc = "batchValidate"
  /\ Validate(imageBase64, token) = 400
  /\ status' = 400 /\ errorBody' = "No image provided"
  /\ body' = ErrorBody("No image provided")
  /\ pc' = "responded"
  /\ UNCHANGED <<imageBase64, token, xSteps, ySteps, variant, gridVars,
                 completedCount, inFlight, frame, attempts, generatedImages,
                 batchStart, batchIdle>>

\* if (!process.env.REPLICATE_API_TOKEN) return 500
BatchRejectNoToken ==
  /\ pc = "batchValidate"
  /\ Validate(imageBase64, token) = 500
  /\ status' = 500 /\ errorBody' = "Server not configured. Missing API token."
  /\ body' = ErrorBody("Server not configured. Missing API token.")
  /\ pc' = "responded"
  /\ UNCHANGED <<imageBase64, token, xSteps, ySteps, variant, gridVars,
                 completedCount, inFlight, frame, attempts, generatedImages,
                 batchStart, batchIdle>>

\* generateSteps({ X_STEPS, Y_STEPS, PREFIX }), steps.flat(), and the first
\* turn of the loop up to its await: the calls of the first batch start
BatchStart ==
  /\ pc = "batchValidate"
  /\ Validate(imageBase64, token) = 200
  /\ \E fs \in {Flat(generateStepsLegacy(xSteps, ySteps,
                                          ROTATE_BOUND, PUPIL_BOUND))} :
       LET n == Len(fs)
           first == BatchOf(0, n)
       IN /\ flatSteps' = fs
          /\ totalImages' = calculateTotal(xSteps, ySteps)
          /\ frame' = [k \in 0 .. n - 1 |->
                         IF k \in first THEN "calling" ELSE "pending"]
          /\ attempts' = [k \in 0 .. n - 1 |-> IF k \in first THEN 1 ELSE 0]
          /\ inFlight' = Cardinality(first)
          /\ IF n = 0
             THEN /\ status' = 200
                  /\ body' = SuccessBody(<< >>)
                  /\ pc' = "responded"
             ELSE /\ pc' = "batchAwait"
                  /\ UNCHANGED <<status, body>>
  /\ completedCount' = 0
  /\ generatedImages' = << >>
  /\ batchStart' = 0
  /\ UNCHANGED <<imageBase64, token, xSteps, ySteps, variant, errorBody,
                 batchIdle>>

\* generateImage of frame k resolves; when it is the last of its batch the
\* results are pushed and the loop starts the calls of the next batch, or
\* the success response is returned
BatchCallSucceeds(k) ==
  /\ pc \in {"batchAwait", "responded"}
  /\ k \in DOMAIN frame
  /\ frame[k] = "calling"
  /\ completedCount' = completedCount + 1
  /\ LET fr == [frame EXCEPT ![k] = "succeeded"]
         next == batchStart + BATCH_SIZE
         imgs == generatedImages \o batchResults(batchStart)
     IN IF /\ pc = "batchAwait"
           /\ \A j \in BatchOf(batchStart, N) : fr[j] = "succeeded"
        THEN /\ generatedImages' = imgs
             /\ batchStart' = next
             /\ IF next < N
                THEN /\ frame' = [j \in DOMAIN frame |->
                                    IF j \in BatchOf(next, N) THEN "calling"
                                    ELSE fr[j]]
                     /\ attempts' = [j \in DOMAIN frame |->
                                       IF j \in BatchOf(next, N)
                                       THEN attempts[j] + 1 ELSE attempts[j]]
                     /\ inFlight' = inFlight - 1 + Cardinality(BatchOf(next, N))
                     /\ UNCHANGED <<pc, status, body>>
                ELSE /\ frame' = fr
                     /\ inFlight' = inFlight - 1
                     /\ status' = 200
                     /\ body' = SuccessBody(imgs)
                     /\ pc' = "responded"
                     /\ UNCHANGED attempts
        ELSE /\ frame' = fr
             /\ inFlight' = inFlight - 1
             /\ UNCHANGED <<pc, status, body, attempts, generatedImages,
                            batchStart>>
  /\ UNCHANGED <<imageBase64, token, xSteps, ySteps, variant, errorBody,
                 gridVars, batchIdle>>

\* generateImage of frame k rejects: Promise.all rejects at once, the await
\* throws and the catch of POST returns the error
BatchCallFails(k) ==
  /\ pc \in {"batchAwait", "responded"}
  /\ k \in DOMAIN frame
  /\ frame[k] = "calling"
  /\ frame' = [frame EXCEPT ![k] = "failed"]
  /\ inFlight' = inFlight - 1
  /\ IF pc = "batchAwait"
     THEN /\ status' = 500
          /\ errorBody' = "Generation failed"
          /\ body' = ErrorBody("Generation failed")
          /\ pc' = "responded"
     ELSE UNCHANGED <<pc, status, errorBody, body>>
  /\ UNCHANGED <<imageBase64, token, xSteps, ySteps, variant, gridVars,
                 completedCount, attempts, generatedImages, batchStart,
                 batchIdle>>

NextBatch ==
  \/ BatchReceive
  \/ BatchRejectNoImage
  \/ BatchRejectNoToken
  \/ BatchStart
  \/ \E k \in 0 .. MaxBatchFrames - 1 : BatchCallSucceeds(k)
  \/ \E k \in 0 .. MaxBatchFrames - 1 : BatchCallFails(k)

SpecBatch == Init /\ [][NextBatch]_vars

\* ============================================================ properties
ProgressPositions == {k \in 1..Len(stream) : stream[k].type = "progress"}
TerminalPositions ==
  {k \in 1..Len(stream) : stream[k].type \in {"complete", "error"}}
ConfigPositions == {k \in 1..Len(stream) : stream[k].type = "config"}
NumProgress == Cardinality(ProgressPositions)
TerminalWritten == TerminalPositions # {}
IsTerminal(i) == frame[i] \in {"succeeded", "givenup"}
CallsStarted == \E i \in Frames : attempts[i] > 0

\* the progress events of the stream, in stream order
RECURSIVE ProgressOnly(_)
ProgressOnly(strm) ==
  IF strm = << >> THEN << >>
  ELSE IF Head(strm).type = "progress"
       THEN <<Head(strm)>> \o ProgressOnly(Tail(strm))
       ELSE ProgressOnly(Tail(strm))

\* C1: once the terminal event of a batch of N frames is on the stream,
\* exactly N progress events precede it and the last of them carries
\* completed = N, whatever the outcomes of the remote calls were.
C1_ExactlyNProgress ==
  TerminalWritten =>
    /\ NumProgress = N
    /\ N > 0 => ProgressOnly(stream)[NumProgress].completed = N

\* C2: a frame whose five attempts all failed with 429 has exactly one
\* progress event for its index, carrying no usable image, and the batch
\* ends with a "complete" event.
C2_ExhaustedFrameReported ==
  \A i \in Frames :
    (frame[i] = "givenup" /\ fails429[i] = MAX_RETRIES) =>
      /\ Len(delivered[i]) = 1
      /\ delivered[i][1].image # i
      /\ pc = "closed" => stream[Len(stream)].type = "complete"

\* C3: the number of generateImage calls started and not yet settled never
\* exceeds the concurrency of 8 nor the number of frames.
C3_InFlightBounded ==
  /\ inFlight <= CONCURRENCY
  /\ inFlight <= N

\* C3 witness: a batch of more than 8 frames with 8 calls in flight after
\* the cursor was exhausted and a backoff has been served
C3_PoolSaturated ==
  /\ N > CONCURRENCY
  /\ inFlight = CONCURRENCY
  /\ currentIndex = N
  /\ \E i \in Frames : waits[i] # << >>

\* C4: every index below the cursor has been claimed exactly once, no index
\* at or above it has been claimed, no two suspended workers hold the same
\* index, and the cursor never decreases.
C4_Claimed ==
  /\ \A i \in Frames : claims[i] = (IF i < currentIndex THEN 1 ELSE 0)
  /\ currentIndex <= N
  /\ \A w \in BagToSet(workers) : CopiesIn(w, workers) = 1
  /\ \A v, w \in BagToSet(workers) : v # w => v.myIndex # w.myIndex

C4_ClaimedOnce == [](C4_Claimed) /\ [][currentIndex' >= currentIndex]_vars

\* C4 witness: a worker that finished a frame has claimed the last index
\* while other workers still hold theirs
C4_Reclaimed ==
  /\ N > CONCURRENCY
  /\ currentIndex = N
  /\ BagCardinality(workers) = CONCURRENCY
  /\ completedCount = 1

C6_ConfigFirst ==
  /\ Cardinality(ConfigPositions) <= 1
  /\ stream # << >> => stream[1].type = "config"
  /\ (CallsStarted \/ inFlight > 0 \/ status = 200) =>
        ConfigPositions = {1}
  /\ \A k \in ProgressPositions : 1 \in ConfigPositions /\ 1 < k

\* C6 witness: progress events are on the stream behind the config event
C6_ProgressAfterConfig ==
  /\ NumProgress >= 2
  /\ stream[1].type = "config"

\* C7: the k-th progress event written carries completed = k.
C7_CompletedStepsByOne ==
  \A k \in 1..NumProgress : ProgressOnly(stream)[k].completed = k

\* C8: completedCount stays within 0..N, never decreases and grows by at
\* most one in a step (a step finishes at most one frame), also in runs in
\* which the reader has gone away and enqueue throws.
C8_CountWithinTotal ==
  /\ [](0 <= completedCount /\ completedCount <= N)
  /\ [][/\ completedCount' >= completedCount
        /\ completedCount' <= completedCount + 1]_vars

\* the backoff delays of the claim: 5000 * 2^i for i = 0..k-1
ClaimedWaits(k) == [j \in 1..k |-> 5000 * Pow2(j - 1)]

\* C9: a frame that succeeded after k 429 failures was attempted k + 1
\* times, with k < 5, waited 5000 * 2^i ms (i = 0..k-1, none above 60000)
\* in between, and has exactly one progress event, with its own image.
C9_RetryThenSuccess ==
  \A i \in Frames :
    frame[i] = "succeeded" =>
      /\ fails429[i] < MAX_RETRIES
      /\ attempts[i] = fails429[i] + 1
      /\ waits[i] = ClaimedWaits(fails429[i])
      /\ \A j \in 1..Len(waits[i]) : waits[i][j] <= 60000
      /\ Len(delivered[i]) = 1
      /\ delivered[i][1].image = i
      /\ delivered[i][1].step = StepAt(i)

\* C9 witness: a frame succeeded on its fifth attempt, after four 429s
C9_FourRetries ==
  \E i \in Frames :
    /\ frame[i] = "succeeded"
    /\ fails429[i] = MAX_RETRIES - 1
    /\ Len(waits[i]) = 4

NoStreamNoCall ==
  /\ stream = << >>
  /\ closed = 0
  /\ inFlight = 0
  /\ N = 0
  /\ spawned = 0

\* C10: a request without an image is answered 400 "No image provided",
\* also when the token is missing; one with an image but no token is
\* answered 500; neither opens a stream, writes an event or starts a
\* remote call; status 200 is returned only for an image with a token.
C10_ValidationFirst ==
  /\ (pc # "idle" /\ ~imageBase64) =>
        /\ NoStreamNoCall
        /\ pc = "returned" => status = 400 /\ errorBody = "No image provided"
  /\ (pc # "idle" /\ imageBase64 /\ ~token) =>
        /\ NoStreamNoCall
        /\ pc = "returned" => status = 500
  /\ status \in {400, 500} => NoStreamNoCall
  /\ status = 200 => imageBase64 /\ token
  /\ pc = "returned" => status \in {400, 500}
  /\ stream # << >> => imageBase64 /\ token

\* C10 witness: neither image nor token, answered 400
C10_NoImageNoToken ==
  /\ pc = "returned"
  /\ ~imageBase64 /\ ~token
  /\ status = 400

\* C11: a request whose xSteps or ySteps is not a positive integer is
\* answered with an HTTP error: it never gets status 200, no event is
\* written for it and no remote call is started.
C11_BadGridRejected ==
  (pc # "idle" /\ (xSteps < 1 \/ ySteps < 1)) =>
    /\ status # 200
    /\ stream = << >>
    /\ inFlight = 0

\* the spec generateSteps computes for column col of row `row`
StepFor(v, col, row) ==
  IF v = "constants"
  THEN MakeStepWith(col, row, xSteps, ySteps, rotateBound, pupilBound)
  ELSE MakeStepLegacy(col, row, xSteps, ySteps, rotateBound, pupilBound)

\* C12: for xSteps, ySteps >= 1 the flattened list has xSteps * ySteps
\* entries (= totalImages); the entry at row * xSteps + col is the spec of
\* (row, col), whose yaw and pupil_x are those of column col in row 0 and
\* whose pitch and pupil_y are those of column 0 in the same row.
C12_RowMajor ==
  pc = "generated" =>
    /\ Len(flatSteps) = xSteps * ySteps
    /\ totalImages = Len(flatSteps)
    /\ \A row \in 0 .. ySteps - 1 : \A col \in 0 .. xSteps - 1 :
         LET e == StepAt(row * xSteps + col)
         IN /\ e = StepFor(variant, col, row)
            /\ e.rotate_yaw = StepAt(col).rotate_yaw
            /\ e.pupil_x = StepAt(col).pupil_x
            /\ e.rotate_pitch = StepAt(row * xSteps).rotate_pitch
            /\ e.pupil_y = StepAt(row * xSteps).pupil_y

\* C12 witness: a generated grid that is not square
C12_ThreeByTwo ==
  /\ pc = "generated"
  /\ xSteps = 3 /\ ySteps = 2
  /\ Len(flatSteps) = 6

\* C13: with more than one column and more than one row, column 0 carries
\* yaw -R and pupil_x -P, the last column +R and +P, row 0 pitch -R and
\* pupil_y -P, the last row +R and +P (hundredths); the 5 x 5 grid with
\* R = 20, P = 15 has (-20, -20, -15, -15) at (0, 0), (20, 20, 15, 15) at
\* (4, 4) and four zeros at (2, 2).
C13_BoundsAtEdges ==
  (pc = "generated" /\ xSteps > 1 /\ ySteps > 1) =>
    /\ \A row \in 0 .. ySteps - 1 :
         /\ StepAt(row * xSteps).rotate_yaw = -100 * rotateBound
         /\ StepAt(row * xSteps).pupil_x = -100 * pupilBound
         /\ StepAt(row * xSteps + xSteps - 1).rotate_yaw = 100 * rotateBound
         /\ StepAt(row * xSteps + xSteps - 1).pupil_x = 100 * pupilBound
    /\ \A col \in 0 .. xSteps - 1 :
         /\ StepAt(col).rotate_pitch = -100 * rotateBound
         /\ StepAt(col).pupil_y = -100 * pupilBound
         /\ StepAt((ySteps - 1) * xSteps + col).rotate_pitch
              = 100 * rotateBound
         /\ StepAt((ySteps - 1) * xSteps + col).pupil_y = 100 * pupilBound
    /\ (xSteps = 5 /\ ySteps = 5 /\ rotateBound = 20 /\ pupilBound = 15) =>
         /\ StepAt(0) = [rotate_yaw |-> -2000, rotate_pitch |-> -2000,
                         pupil_x |-> -1500, pupil_y |-> -1500]
         /\ StepAt(24) = [rotate_yaw |-> 2000, rotate_pitch |-> 2000,
                          pupil_x |-> 1500, pupil_y |-> 1500]
         /\ StepAt(12) = [rotate_yaw |-> 0, rotate_pitch |-> 0,
                          pupil_x |-> 0, pupil_y |-> 0]

\* C13 witness: the 5 x 5 grid with the default bounds has been generated
C13_FiveByFive ==
  /\ pc = "generated"
  /\ xSteps = 5 /\ ySteps = 5
  /\ rotateBound = 20 /\ pupilBound = 15
  /\ Len(flatSteps) = 25

\* C14: with one column every spec has yaw 0 and pupil_x 0, with one row
\* every spec has pitch 0 and pupil_y 0, whichever generateSteps is called.
C14_MidpointForSingleStep ==
  pc = "generated" =>
    \A i \in Frames :
      /\ xSteps = 1 => StepAt(i).rotate_yaw = 0 /\ StepAt(i).pupil_x = 0
      /\ ySteps = 1 => StepAt(i).rotate_pitch = 0 /\ StepAt(i).pupil_y = 0

\* the frames whose retry loop has ended
Settled == {i \in Frames : frame[i] \in {"succeeded", "givenup"}}

\* C15 as stated: on a 3 x 3 grid the pool has 9 workers and all 9 frames
\* are dispatched before the response is returned.
C15_AllNineAtOnce ==
  (xSteps = 3 /\ ySteps = 3 /\ pc = "await") =>
    /\ spawned = 9
    /\ currentIndex = 9

\* C15: on a 3 x 3 grid the pool has min(8, 9) = 8 workers; 8 frames are
\* dispatched before the response is returned, the ninth exactly when the
\* first frame has ended (success or give-up), and "complete" is written
\* only when all 9 have ended.
C15_EightThenNinth ==
  (xSteps = 3 /\ ySteps = 3 /\ pc \in {"await", "close", "closed"}) =>
    /\ spawned = 8
    /\ Settled = {} => (currentIndex = 8 /\ claims[8] = 0)
    /\ Settled # {} => (currentIndex = 9 /\ claims[8] = 1)
    /\ TerminalWritten => Settled = Frames

\* C15 witness: 3 x 3, frame 8 was dispatched after another frame ended
\* and the batch has completed
C15_NinthDispatchedLate ==
  /\ xSteps = 3 /\ ySteps = 3
  /\ pc = "closed"
  /\ spawned = 8
  /\ claims[8] = 1
  /\ Settled = Frames

\* C16: the stream is closed at most once, a closed stream ends with its
\* terminal event, the handler finishes with the stream closed once, and
\* nothing is written to a closed stream.
C16_CloseAfterTerminal ==
  /\ [](/\ closed <= 1
        /\ closed = 1 => /\ TerminalPositions = {Len(stream)}
                         /\ Len(stream) >= 2
        /\ pc = "closed" => closed = 1)
  /\ [][closed >= 1 => (stream' = stream /\ closed' = closed)]_vars

\* C16 witness: a stream with progress events has been closed
C16_ClosedStream ==
  /\ closed = 1
  /\ NumProgress >= 2
  /\ stream[Len(stream)].type = "complete"

GivenUpOn429(i) ==
  /\ frame[i] = "givenup"
  /\ fails429[i] = attempts[i]

\* C18 as stated: a 429 leads to give-up only when five retries have been
\* performed (five waits) before it.
C18_GiveUpAfterFiveRetries ==
  \A i \in Frames : GivenUpOn429(i) => Len(waits[i]) = MAX_RETRIES

\* C18: the k-th 429 of a frame, k <= 4, is followed by a wait of
\* min(5000 * 2^(k-1), 60000) ms and another attempt; the fifth 429 (four
\* retries performed) gives the frame up without a wait.
C18_RetryRule ==
  \A i \in Frames :
    /\ Len(waits[i]) <= MAX_RETRIES - 1
    /\ \A j \in 1 .. Len(waits[i]) :
         waits[i][j] = Min(5000 * Pow2(j - 1), 60000)
    /\ frame[i] = "backoff" => Len(waits[i]) = fails429[i]
    /\ (frame[i] = "attempting" /\ fails429[i] = attempts[i] - 1) =>
         Len(waits[i]) = fails429[i]
    /\ GivenUpOn429(i) =>
         /\ fails429[i] = MAX_RETRIES
         /\ Len(waits[i]) = MAX_RETRIES - 1

\* C18 witness: a frame given up on its fifth 429, after waits of 5, 10, 20
\* and 40 seconds
C18_FifthRejection ==
  \E i \in Frames :
    /\ GivenUpOn429(i)
    /\ waits[i] = <<5000, 10000, 20000, 40000>>

\* the step that gives frame i up on an error other than 429
GivesUpOnOther(i) ==
  /\ frame[i] = "attempting"
  /\ frame'[i] = "givenup"
  /\ fails429'[i] = fails429[i]

RECURSIVE SumAttempts(_)
SumAttempts(k) == IF k = 0 THEN 0 ELSE attempts[k - 1] + SumAttempts(k - 1)

\* C20: no frame is attempted more than 5 times, the batch makes at most
\* 5 * N calls, and a frame that is being attempted or backing off is still
\* in the retry loop of a worker, so the loop ends only in success or
\* give-up.
C20_AtMostFiveCalls ==
  /\ \A i \in Frames : attempts[i] <= MAX_RETRIES
  /\ SumAttempts(N) <= MAX_RETRIES * N
  /\ \A i \in Frames :
       frame[i] \in {"attempting", "backoff"} =>
         \E w \in BagToSet(workers) : w.myIndex = i
  /\ pc \in {"close", "closed"} => \A i \in Frames : IsTerminal(i)

\* C20 witness: a finished batch in which one frame took five calls
C20_FiveCallsForOneFrame ==
  /\ pc = "closed"
  /\ N >= 2
  /\ \E i \in Frames : attempts[i] = MAX_RETRIES
  /\ SumAttempts(N) = N + MAX_RETRIES - 1

\* the frames claimed by a worker whose retry loop has not ended
Held == {i \in Frames : frame[i] \in {"attempting", "backoff"}}

Payloads == UNION {{delivered[i][k] : k \in 1 .. Len(delivered[i])} : i \in Frames}

\* number of progress payloads written for the frames 0 .. k - 1
RECURSIVE SumDelivered(_)
SumDelivered(k) ==
  IF k = 0 THEN 0 ELSE Len(delivered[k - 1]) + SumDelivered(k - 1)

\* C22: every progress event carries an index in 0 .. N - 1, the step at
\* that index of the row-major list and the image of the call made for
\* that step; no index is carried by two progress events, and every
\* progress event of the stream is one of these.
C22_KeyedByIndex ==
  /\ \A e \in Payloads :
       /\ e.index \in Frames
       /\ e.step = StepAt(e.index)
       /\ e.image = e.index
  /\ \A i \in Frames :
       /\ Len(delivered[i]) <= 1
       /\ \A k \in 1 .. Len(delivered[i]) : delivered[i][k].index = i
  /\ Cardinality(Payloads) = NumProgress
  /\ SumDelivered(N) = NumProgress

\* C22 witness: of 9 frames the last has been delivered while the first is
\* still backing off, so the events arrive out of index order
C22_OutOfOrder ==
  /\ N = 9
  /\ frame[0] = "backoff"
  /\ Len(delivered[8]) = 1
  /\ delivered[8][1].index = 8
  /\ delivered[0] = << >>

\* the indexes of the frames the page has received
Received == {images[k].index : k \in 1 .. Len(images)}

\* C23: after "complete", with the pointer over cell (row, col), the viewer
\* shows the frame of index row * xSteps + col whenever that frame was
\* delivered, whichever other frames were dropped.
C23_CellShowsItsFrame ==
  (cpc = "viewing" /\ uiStatus = "complete" /\ hover # << >>) =>
    LET i == hover[1] * xSteps + hover[2]
    IN i \in Received => drawn = i

\* C24: once the page has parsed an event of type "error" its status is
\* "error".
C24_ErrorEventSetsError ==
  (\E k \in 1 .. Len(handled) : handled[k] = "error") => uiStatus = "error"

\* C25: the status "generating" does not last: whatever the server wrote
\* before the body ended, the status becomes "complete" or "error".
C25_StatusSettles ==
  (uiStatus = "generating") ~> (uiStatus \in {"complete", "error"})

\* the bytes of a sequence of events
RECURSIVE Bytes(_)
Bytes(evs) ==
  IF evs = << >> THEN << >> ELSE encodeSSE(Head(evs)) \o Bytes(Tail(evs))

\* the page after reading the whole body as a single chunk
OneChunk ==
  HandleLines(Popped(split(Bytes(sent))),
              [images |-> << >>, status |-> "generating", handled |-> << >>])

\* C26: however the body is cut into chunks, once it has been read the
\* page has handled the events the server wrote, each once and in order,
\* and is in the state a single chunk leaves it in; while reading, the
\* events handled are those whose frames have been read completely.
C26_ChunkInsensitive ==
  /\ (cpc \in {"returned", "viewing"} /\ sent # << >>) =>
       /\ handled = sent
       /\ handled = OneChunk.handled
       /\ images = OneChunk.images
       /\ uiStatus = OneChunk.status
  /\ cpc = "reading" =>
       /\ Len(handled) = (Len(Bytes(sent)) - Len(wire)) \div Len(encodeSSE("config"))
       /\ handled = SubSeq(sent, 1, Len(handled))
       /\ buffer \o wire = Bytes(SubSeq(sent, Len(handled) + 1, Len(sent)))

\* C26 witness: a chunk ended between the two newlines of a terminator,
\* after an earlier event was handled, and the body was read to its end
\* from there
C26_CutInsideTerminator ==
  /\ cpc = "reading"
  /\ handled # << >>
  /\ buffer # << >>
  /\ buffer[Len(buffer)] = "\n"
  /\ wire # << >>
  /\ wire[1] = "\n"

\* C27: a lookup that returns an image was preceded by a cachePreprocessed
\* call with the same image, style prompt and fullBody flag, and returns
\* the processed image of the latest such call.
C27_LookupMatchesArguments ==
  got.result # 0 =>
    /\ got.args \in DOMAIN latest
    /\ got.result = latest[got.args]

\* the keys of a Map
KeysOf(m) == {m[i].key : i \in 1 .. Len(m)}

\* position of the latest entry of key k into the Map
LastInsert(k) ==
  CHOOSE i \in 1 .. Len(insertLog) :
    /\ insertLog[i] = k
    /\ \A j \in i + 1 .. Len(insertLog) : insertLog[j] # k

\* C28: the cache never holds more than 10 entries after a call; a call
\* that adds an eleventh key removes the key that entered the cache
\* earliest and keeps the entry just written, and no other call removes
\* a key.
C28_BoundedOldestEvicted ==
  /\ [](/\ Len(imageCache) <= CACHE_LIMIT
        /\ Cardinality(KeysOf(imageCache)) = Len(imageCache)
        /\ \A k \in KeysOf(imageCache) :
             \E i \in 1 .. Len(insertLog) : insertLog[i] = k)
  /\ [][IF Len(imageCache) = CACHE_LIMIT /\ insertLog' # insertLog
        THEN LET new == insertLog'[Len(insertLog')]
                 old == CHOOSE k \in KeysOf(imageCache) :
                          \A j \in KeysOf(imageCache) :
                            LastInsert(k) <= LastInsert(j)
             IN /\ KeysOf(imageCache') =
                     (KeysOf(imageCache) \ {old}) \cup {new}
                /\ new \notin KeysOf(imageCache)
                /\ imageCache'[Len(imageCache')].key = new
                /\ Len(imageCache') = CACHE_LIMIT
        ELSE KeysOf(imageCache) \subseteq KeysOf(imageCache')]_vars

\* C28 witness: the cache is full, keys have been evicted, and one of
\* them has entered the cache a second time
C28_EvictedAndBack ==
  /\ Len(imageCache) = CACHE_LIMIT
  /\ Len(insertLog) > CACHE_LIMIT + 1
  /\ \E i, j \in 1 .. Len(insertLog) : i < j /\ insertLog[i] = insertLog[j]

\* the ids of a list of renders
IdsOf(list) == {list[i].id : i \in 1 .. Len(list)}

\* a render of the history with no render older than it
IsOldest(id) ==
  \E i \in 1 .. Len(renders) :
    /\ renders[i].id = id
    /\ \A j \in 1 .. Len(renders) : renders[i].createdAt <= renders[j].createdAt

\* C29: whatever saves, deletes and clears have run one after the other,
\* the history holds at most 10 renders and is listed newest first; a save
\* at capacity adds the new render and removes one render, which has the
\* oldest createdAt, and a save below capacity removes none.
C29_HistoryBounded ==
  /\ [](/\ Len(renders) <= MAX_RENDERS
        /\ Len(Listing) = Len(renders)
        /\ IdsOf(Listing) = IdsOf(renders)
        /\ Cardinality(IdsOf(renders)) = Len(renders)
        /\ \A i \in 1 .. Len(Listing) - 1 :
             Listing[i].createdAt >= Listing[i + 1].createdAt)
  /\ [][saves' = saves + 1 =>
          \E new \in IdsOf(renders') \ IdsOf(renders) :
            IF Len(renders) = MAX_RENDERS
            THEN \E old \in IdsOf(renders) :
                   /\ IsOldest(old)
                   /\ IdsOf(renders') = (IdsOf(renders) \ {old}) \cup {new}
            ELSE IdsOf(renders') = IdsOf(renders) \cup {new}]_vars

\* C29 witness: twelve saves, one of them within the millisecond of the
\* save before it, and a delete have run on the IndexedDB store, which is
\* at capacity with the two renders of that millisecond still in it
C29_SavedPastCapacity ==
  /\ storage = "indexedDB"
  /\ saves = MaxSaves
  /\ edits = MaxEdits
  /\ Len(renders) = MAX_RENDERS
  /\ \E i, j \in 1 .. Len(renders) :
       i # j /\ renders[i].createdAt = renders[j].createdAt

\* the batch of 5 a frame belongs to, as the index of its first frame
GroupOf(k) == (k \div BATCH_SIZE) * BATCH_SIZE

\* C30: a success response means that the call of every frame succeeded,
\* and its images are one per frame, in the order of the row-major list;
\* at most 5 calls are in flight; once the call of a frame has failed no
\* frame of a later batch has been dispatched and the response is a 500
\* error with no images.
C30_AllOrNothing ==
  /\ inFlight <= BATCH_SIZE
  /\ inFlight = Cardinality({k \in DOMAIN frame : frame[k] = "calling"})
  /\ (pc = "responded" /\ status = 200) =>
       /\ \A k \in Frames : frame[k] = "succeeded" /\ attempts[k] = 1
       /\ DOMAIN body = {"success", "images"}
       /\ body.success
       /\ Len(body.images) = N
       /\ \A i \in 1 .. N :
            /\ body.images[i].step = flatSteps[i]
            /\ body.images[i].imageBase64 = i - 1
  /\ \A k \in DOMAIN frame :
       frame[k] = "failed" =>
         /\ \A j \in DOMAIN frame :
              j >= GroupOf(k) + BATCH_SIZE =>
                frame[j] = "pending" /\ attempts[j] = 0
         /\ pc = "responded"
         /\ status = 500
         /\ DOMAIN body = {"error"}

\* C30 witness: a request of three batches has been answered with success
C30_ThreeBatchesDone ==
  /\ pc = "responded"
  /\ status = 200
  /\ N > 2 * BATCH_SIZE
  /\ Len(generatedImages) = N

\* C30 witness of the failure case: a call of the second batch has failed
\* and a third batch was never started
C30_FailedInSecondBatch ==
  /\ N > 2 * BATCH_SIZE
  /\ \E k \in DOMAIN frame : k >= BATCH_SIZE /\ frame[k] = "failed"

====
